---- MODULE Spec2Model ----
(***************************************************************************)
(* Model of GitFlow's repository activity analysis                         *)
(* (src/analyze_repository_activity.py): diff normalisation, day grouping, *)
(* context building under a token budget, the three-tier splitting         *)
(* strategy and the greedy packer of small days.                           *)
(*                                                                         *)
(* Text is modelled by what the code reads of it: its length in characters *)
(* (every size decision goes through len(text) // CHARS_PER_TOKEN) and its *)
(* structure (which commit blocks and which file blocks it is made of).    *)
(* File names are sequences of one-character strings, because the code     *)
(* splits them at "." and lower-cases the last part.                       *)
(***************************************************************************)
EXTENDS Integers, Sequences, FiniteSets, TLC

(***************************************************************************)
(* Program constants                                                       *)
(***************************************************************************)
TIER_1_THRESHOLD == 100000

TIER_2_THRESHOLD == 700000

CHARS_PER_TOKEN == 3

MAX_FILE_DIFF_SIZE == 90000

\* default value of process_small_days_batch's batch_threshold parameter
batch_threshold == 90000

\* len("\n\n[TRUNCATED: File diff exceeds size limit. ... visible portion.]")
SizeMarkerLen == 146

\* len("[TRUNCATED: File diff omitted due to token budget constraints. ... existing context.]\n")
BudgetNoticeLen == 158

\* len("Commit: ") + len("\nAuthor: ") + len("\nDate: ") + len("\nMessage: ") + len("\n")
HeaderLiteralLen == 35

\* sha[:7]
ShaPrefixLen == 7

\* len("File: ") + len(" (") + len(")\n")
FileLineLiteralLen == 10

\* len("```\n") + len("\n```\n")
FenceLiteralLen == 9

\* len("\n---\n")
SeparatorLen == 5

\* token_budget: Optional[int] = None is <<>>, an integer budget b is <<b>>
None == <<>>

Some(b) == <<b>>

\* Python truthiness of an Optional[int]: None and 0 are both false
Truthy(token_budget) == token_budget # None /\ token_budget[1] # 0

Min(a, b) == IF a < b THEN a ELSE b

(***************************************************************************)
(* is_non_code_file                                                        *)
(***************************************************************************)
NON_CODE_EXTENSIONS ==
    { <<".","j","p","g">>, <<".","j","p","e","g">>, <<".","p","n","g">>,
      <<".","g","i","f">>, <<".","s","v","g">>, <<".","w","e","b","p">>,
      <<".","i","c","o">>, <<".","b","m","p">>, <<".","t","i","f","f">>,
      <<".","m","p","4">>, <<".","a","v","i">>, <<".","m","o","v">>,
      <<".","w","m","v">>, <<".","f","l","v">>, <<".","w","e","b","m">>,
      <<".","m","p","3">>, <<".","w","a","v">>, <<".","o","g","g">>,
      <<".","f","l","a","c">>,
      <<".","z","i","p">>, <<".","t","a","r">>, <<".","g","z">>,
      <<".","r","a","r">>, <<".","7","z">>, <<".","e","x","e">>,
      <<".","d","l","l">>, <<".","s","o">>, <<".","d","y","l","i","b">>,
      <<".","p","d","f">>, <<".","d","o","c">>, <<".","d","o","c","x">>,
      <<".","x","l","s">>, <<".","x","l","s","x">>, <<".","p","p","t">>,
      <<".","p","p","t","x">>,
      <<".","w","o","f","f">>, <<".","w","o","f","f","2">>,
      <<".","t","t","f">>, <<".","e","o","t">>, <<".","o","t","f">>,
      <<".","l","o","c","k">> }

UpperCase == <<"A","B","C","D","E","F","G","H","I","J","K","L","M",
               "N","O","P","Q","R","S","T","U","V","W","X","Y","Z">>

LowerCase == <<"a","b","c","d","e","f","g","h","i","j","k","l","m",
               "n","o","p","q","r","s","t","u","v","w","x","y","z">>

\* str.lower() on one character
LowerChar(c) ==
    IF \E i \in 1..Len(UpperCase) : UpperCase[i] = c
    THEN LowerCase[CHOOSE i \in 1..Len(UpperCase) : UpperCase[i] = c]
    ELSE c

lower(s) == [i \in 1..Len(s) |-> LowerChar(s[i])]

\* "." in filename
HasDot(filename) == \E i \in 1..Len(filename) : filename[i] = "."

\* filename.split(".")[-1]: the text after the final "."
LastPart(filename) ==
    LET last == CHOOSE i \in 1..Len(filename) :
                    /\ filename[i] = "."
                    /\ \A j \in (i+1)..Len(filename) : filename[j] # "."
    IN  SubSeq(filename, last + 1, Len(filename))

\* is_non_code_file without the .lower()
is_non_code_file_CaseSensitive(filename) ==
    LET ext == IF HasDot(filename) THEN <<".">> \o LastPart(filename) ELSE <<>>
    IN  ext \in NON_CODE_EXTENSIONS

is_non_code_file(filename) ==
    LET ext == IF HasDot(filename) THEN <<".">> \o lower(LastPart(filename)) ELSE <<>>
    IN  ext \in NON_CODE_EXTENSIONS

(***************************************************************************)
(* estimate_tokens, on the length of the text                              *)
(***************************************************************************)
estimate_tokens(textLen) == textLen \div CHARS_PER_TOKEN

(***************************************************************************)
(* fetch_commit_diff.  A response of the diff-fetch collaborator is        *)
(* [status |-> HTTP status, files |-> raw file list]; a raw file is        *)
(* [filename, patch (its length, 0 when absent or empty), status].         *)
(* The additions/deletions counters are copied through and read by no      *)
(* code of the analysis, they are left out.                                *)
(***************************************************************************)
\* TruncatePatch with the size test made inclusive
TruncatePatch_GE(f) ==
    IF f.patch >= MAX_FILE_DIFF_SIZE
    THEN [filename |-> f.filename, patch |-> MAX_FILE_DIFF_SIZE + SizeMarkerLen,
          status |-> f.status, marker |-> TRUE]
    ELSE [filename |-> f.filename, patch |-> f.patch,
          status |-> f.status, marker |-> FALSE]

TruncatePatch(f) ==
    IF f.patch > MAX_FILE_DIFF_SIZE
    THEN [filename |-> f.filename, patch |-> MAX_FILE_DIFF_SIZE + SizeMarkerLen,
          status |-> f.status, marker |-> TRUE]
    ELSE [filename |-> f.filename, patch |-> f.patch,
          status |-> f.status, marker |-> FALSE]

RECURSIVE ProcessFiles(_)
ProcessFiles(files) ==
    IF files = <<>> THEN <<>>
    ELSE IF is_non_code_file(Head(files).filename)
         THEN ProcessFiles(Tail(files))
         ELSE <<TruncatePatch(Head(files))>> \o ProcessFiles(Tail(files))

fetch_commit_diff(response) ==
    IF response.status # 200 THEN <<>> ELSE ProcessFiles(response.files)

(***************************************************************************)
(* Commits.  A commit is [id, sha, message, author, timestamp]: id is the  *)
(* identity of the dict object (its position in the input list), message   *)
(* and author are the lengths of those strings, sha and timestamp are the  *)
(* strings themselves, with their lengths and the result of parsing read   *)
(* from the tables below.                                                  *)
(***************************************************************************)
\* len(sha): identifiers are empty or 40-digit hashes
ShaLen(sha) == IF sha = "" THEN 0 ELSE 40

\* len(timestamp)
TimestampLen(timestamp) ==
    CASE timestamp = "" -> 0
      [] timestamp = "yesterday" -> 9
      [] timestamp = "2024-01-01T10:00:00Z" -> 20
      [] timestamp = "2024-01-02T08:30:00+00:00" -> 25
      [] timestamp = "2024-01-02T21:15:00Z" -> 20
      [] timestamp = "2024-01-03T23:59:59Z" -> 20
      [] timestamp = "2024-01-04T00:00:00Z" -> 20
      [] timestamp = "2024-01-05T12:00:00Z" -> 20
      [] timestamp = "2024-01-06T06:00:00Z" -> 20
      [] timestamp = "2024-01-01T23:30:00-05:00" -> 25

\* commit.get("timestamp", ""): a commit may come without the key
get_timestamp(commit) ==
    IF "timestamp" \in DOMAIN commit THEN commit.timestamp ELSE ""

\* datetime.fromisoformat(timestamp.replace("Z", "+00:00")).strftime("%Y-%m-%d"),
\* "ValueError" when the text is no ISO-8601 timestamp
fromisoformat_day(timestamp) ==
    CASE timestamp = "2024-01-01T10:00:00Z" -> "2024-01-01"
      [] timestamp = "2024-01-02T08:30:00+00:00" -> "2024-01-02"
      [] timestamp = "2024-01-02T21:15:00Z" -> "2024-01-02"
      [] timestamp = "2024-01-03T23:59:59Z" -> "2024-01-03"
      [] timestamp = "2024-01-04T00:00:00Z" -> "2024-01-04"
      [] timestamp = "2024-01-05T12:00:00Z" -> "2024-01-05"
      [] timestamp = "2024-01-06T06:00:00Z" -> "2024-01-06"
      [] timestamp = "2024-01-01T23:30:00-05:00" -> "2024-01-01"
      [] OTHER -> "ValueError"

\* the day keys in the order sorted() gives strings: digits before letters
SortedKeys ==
    <<"2024-01-01", "2024-01-02", "2024-01-03", "2024-01-04", "2024-01-05",
      "2024-01-06", "unknown">>

\* len(status) of a file record
StatusLen(status) ==
    CASE status = "added" -> 5
      [] status = "modified" -> 8
      [] status = "removed" -> 7
      [] status = "renamed" -> 7

(***************************************************************************)
(* group_commits_by_day                                                    *)
(***************************************************************************)
\* DayKey without the "if timestamp" test and without the try/except
DayKey_Unguarded(commit) == fromisoformat_day(get_timestamp(commit))

DayKey(commit) ==
    IF get_timestamp(commit) # ""
    THEN IF fromisoformat_day(get_timestamp(commit)) # "ValueError"
         THEN fromisoformat_day(get_timestamp(commit))
         ELSE "unknown"
    ELSE "unknown"

\* AppendTo with the commit put at the front of its bucket
AppendTo_Prepend(by_day, day_key, commit) ==
    [d \in DOMAIN by_day \cup {day_key} |->
        IF d = day_key
        THEN IF d \in DOMAIN by_day THEN <<commit>> \o by_day[d] ELSE <<commit>>
        ELSE by_day[d]]

\* AppendTo with the bucket overwritten instead of extended
AppendTo_Overwrite(by_day, day_key, commit) ==
    [d \in DOMAIN by_day \cup {day_key} |-> IF d = day_key THEN <<commit>> ELSE by_day[d]]

\* by_day[day_key].append(commit) on a defaultdict(list)
AppendTo(by_day, day_key, commit) ==
    [d \in DOMAIN by_day \cup {day_key} |->
        IF d = day_key
        THEN IF d \in DOMAIN by_day THEN Append(by_day[d], commit) ELSE <<commit>>
        ELSE by_day[d]]

RECURSIVE GroupInto(_, _)
GroupInto(cs, by_day) ==
    IF cs = <<>> THEN by_day
    ELSE GroupInto(Tail(cs), AppendTo(by_day, DayKey(Head(cs)), Head(cs)))

\* group_commits_by_day starting with a bucket for "unknown"
group_commits_by_day_WithUnknown(cs) == GroupInto(cs, [d \in {"unknown"} |-> <<>>])

group_commits_by_day(cs) == GroupInto(cs, [d \in {} |-> <<>>])

\* sorted_days with the latest day first
sorted_days_Descending(commits_by_day) ==
    LET days == SelectSeq(SortedKeys, LAMBDA d : d \in DOMAIN commits_by_day)
    IN  [i \in 1..Len(days) |-> days[Len(days) + 1 - i]]

\* sorted(commits_by_day.keys())
sorted_days(commits_by_day) ==
    SelectSeq(SortedKeys, LAMBDA d : d \in DOMAIN commits_by_day)

(***************************************************************************)
(* build_commit_context.  The blob is the sequence of its commit blocks;   *)
(* a block is [id, chars, files]: the commit it renders, its length, and   *)
(* for every file line the file and how it is shown ("patch": fenced       *)
(* patch, "bare": no patch to show, "notice": budget truncation notice).   *)
(***************************************************************************)
HeaderLen(commit) ==
    HeaderLiteralLen + Min(ShaPrefixLen, ShaLen(commit.sha)) + commit.author
        + TimestampLen(get_timestamp(commit)) + commit.message

\* get_file_size
get_file_size(f) == f.patch

\* InsertStable with a file put before the files of its own size
InsertStable_BeforeEqual(acc, f) ==
    LET k == Cardinality({i \in 1..Len(acc) : get_file_size(acc[i]) < get_file_size(f)})
    IN  SubSeq(acc, 1, k) \o <<f>> \o SubSeq(acc, k + 1, Len(acc))

\* sorted(files, key=get_file_size): stable, smallest first
InsertStable(acc, f) ==
    LET k == Cardinality({i \in 1..Len(acc) : get_file_size(acc[i]) <= get_file_size(f)})
    IN  SubSeq(acc, 1, k) \o <<f>> \o SubSeq(acc, k + 1, Len(acc))

RECURSIVE SortInto(_, _)
SortInto(files, acc) ==
    IF files = <<>> THEN acc
    ELSE SortInto(Tail(files), InsertStable(acc, Head(files)))

\* sorted_files with reverse=True: largest first
sorted_files_LargestFirst(files) ==
    LET up == SortInto(files, <<>>)
    IN  [i \in 1..Len(up) |-> up[Len(up) + 1 - i]]

sorted_files(files) == SortInto(files, <<>>)

FileTextLen(f) ==
    FileLineLiteralLen + Len(f.filename) + StatusLen(f.status)
        + (IF f.patch > 0 THEN FenceLiteralLen + f.patch ELSE 0)

NoticeTextLen(f) ==
    FileLineLiteralLen + Len(f.filename) + StatusLen(f.status) + BudgetNoticeLen

\* the per-file budget test of line 169
FileOverBudget(total_tokens, file_tokens, token_budget) ==
    Truthy(token_budget) /\ total_tokens + file_tokens > token_budget[1]

\* one pass of "for f in files": the file lines and their total length
RECURSIVE RenderFiles(_, _, _)
RenderFiles(files, total_tokens, token_budget) ==
    IF files = <<>> THEN [chars |-> 0, lines |-> <<>>]
    ELSE LET f    == Head(files)
             rest == RenderFiles(Tail(files), total_tokens, token_budget)
             over == FileOverBudget(total_tokens, estimate_tokens(FileTextLen(f)),
                                    token_budget)
         IN  [chars |-> (IF over THEN NoticeTextLen(f) ELSE FileTextLen(f)) + rest.chars,
              lines |-> <<[filename |-> f.filename,
                           shown |-> IF over THEN "notice"
                                     ELSE IF f.patch > 0 THEN "patch" ELSE "bare"]>>
                        \o rest.lines]

\* CommitBlock with the files sorted by size whether or not there is a budget
CommitBlock_AlwaysSorted(commit, commit_diffs, total_tokens, token_budget) ==
    IF commit.sha \in DOMAIN commit_diffs
    THEN LET files == sorted_files(commit_diffs[commit.sha])
             r == RenderFiles(files, total_tokens, token_budget)
         IN  [id |-> commit.id, chars |-> HeaderLen(commit) + r.chars, files |-> r.lines]
    ELSE [id |-> commit.id, chars |-> HeaderLen(commit), files |-> <<>>]

CommitBlock(commit, commit_diffs, total_tokens, token_budget) ==
    IF commit.sha \in DOMAIN commit_diffs
    THEN LET files == IF Truthy(token_budget)
                      THEN sorted_files(commit_diffs[commit.sha])
                      ELSE commit_diffs[commit.sha]
             r == RenderFiles(files, total_tokens, token_budget)
         IN  [id |-> commit.id, chars |-> HeaderLen(commit) + r.chars, files |-> r.lines]
    ELSE [id |-> commit.id, chars |-> HeaderLen(commit), files |-> <<>>]

\* the per-commit budget test of line 177
CommitOverBudget(total_tokens, commit_tokens, token_budget) ==
    Truthy(token_budget) /\ total_tokens + commit_tokens > token_budget[1]

\* BuildFrom with each block put in front of the parts instead of behind them
RECURSIVE BuildFrom_Prepend(_, _, _, _, _)
BuildFrom_Prepend(cs, commit_diffs, token_budget, parts, total_tokens) ==
    IF cs = <<>> THEN parts
    ELSE LET block == CommitBlock(Head(cs), commit_diffs, total_tokens, token_budget)
             commit_tokens == estimate_tokens(block.chars)
         IN  IF CommitOverBudget(total_tokens, commit_tokens, token_budget)
             THEN parts
             ELSE BuildFrom_Prepend(Tail(cs), commit_diffs, token_budget,
                                    <<block>> \o parts, total_tokens + commit_tokens)

\* BuildFrom with the break of line 178 replaced by a continue
RECURSIVE BuildFrom_SkipOver(_, _, _, _, _)
BuildFrom_SkipOver(cs, commit_diffs, token_budget, parts, total_tokens) ==
    IF cs = <<>> THEN parts
    ELSE LET block == CommitBlock(Head(cs), commit_diffs, total_tokens, token_budget)
             commit_tokens == estimate_tokens(block.chars)
         IN  IF CommitOverBudget(total_tokens, commit_tokens, token_budget)
             THEN BuildFrom_SkipOver(Tail(cs), commit_diffs, token_budget,
                                     parts, total_tokens)
             ELSE BuildFrom_SkipOver(Tail(cs), commit_diffs, token_budget,
                                     Append(parts, block), total_tokens + commit_tokens)

RECURSIVE BuildFrom(_, _, _, _, _)
BuildFrom(cs, commit_diffs, token_budget, parts, total_tokens) ==
    IF cs = <<>> THEN parts
    ELSE LET block == CommitBlock(Head(cs), commit_diffs, total_tokens, token_budget)
             commit_tokens == estimate_tokens(block.chars)
         IN  IF CommitOverBudget(total_tokens, commit_tokens, token_budget)
             THEN parts
             ELSE BuildFrom(Tail(cs), commit_diffs, token_budget,
                            Append(parts, block), total_tokens + commit_tokens)

build_commit_context(cs, commit_diffs, token_budget) ==
    BuildFrom(cs, commit_diffs, token_budget, <<>>, 0)

RECURSIVE SumChars(_)
SumChars(parts) ==
    IF parts = <<>> THEN 0 ELSE Head(parts).chars + SumChars(Tail(parts))

\* DiffsAfterBuild with sorted() replaced by an in-place files.sort()
DiffsAfterBuild_SortInPlace(commit_diffs, token_budget) ==
    IF Truthy(token_budget)
    THEN [sha \in DOMAIN commit_diffs |-> sorted_files(commit_diffs[sha])]
    ELSE commit_diffs

\* the caller's map after a build_commit_context call: line 157 binds files to
\* the stored list, line 160 rebinds it to the new list sorted() returns, and
\* the loop only reads, so the stored lists are what they were
DiffsAfterBuild(commit_diffs, token_budget) == commit_diffs

\* len("\n---\n".join(parts))
ContextLen(parts) ==
    IF parts = <<>> THEN 0 ELSE SumChars(parts) + SeparatorLen * (Len(parts) - 1)

(***************************************************************************)
(* State: the main loop over the repositories and the process_repository   *)
(* run of the current repository                                           *)
(***************************************************************************)
VARIABLES
    github_activity_data, \* the repositories, in the dict's iteration order
    repo_i,          \* index of the "for repo_path, activity_data" loop of line 408
    repository_analyses,  \* the output list
    stored,          \* what store_data("repository_analyses", ...) last wrote
    errors,          \* the repositories of the "Error analyzing" lines printed
    commits,         \* activity_data["commits"], the input list
    responses,       \* what the diff-fetch collaborator answers for each sha
    pc,              \* position in process_repository
    fetch_i,         \* index of the "for commit in commits" loop of line 306
    commit_diffs,    \* the commit-to-diffs map
    total_tokens,    \* estimate of the unbudgeted blob of all commits
    tier,            \* the branch taken at lines 321/329/349 (0: none yet)
    large_days,      \* Tier 3: (day, day_commits, day_tokens) of the large days
    small_days,      \* the small_days argument of process_small_days_batch
    large_i,         \* index of the loop of line 369
    pack_i,          \* index of the loop of line 264
    current_batch,   \* process_small_days_batch's running batch
    current_tokens,  \* and its accumulated size
    all_changes,     \* the accumulated change records
    log,             \* history: every fetch, build_commit_context and Summarizer call
    token_budget,    \* argument of a direct build_commit_context call
    built,           \* and its result
    by_day,          \* result of a direct group_commits_by_day call
    fetched,         \* result of a direct fetch_commit_diff call
    all_branches,    \* fetch_branches_with_dates: the branches collected
    cursor,          \* its pagination cursor (None, or the endCursor last read)
    page,            \* its page counter
    last_response,   \* its "response": what the last requests.post gave (None before the first)
    requests,        \* history: the number of requests.post calls it has made
    returned,        \* what it returned (None while it runs)
    business_report_history,  \* the stored "business_report_history"
    business_report, \* the stored "business_report"
    runs,            \* history: the number of generate_business_report runs
    week             \* the day of the last run (datetime.now, as a day number)

vars == <<github_activity_data, repo_i, repository_analyses, stored, errors,
          commits, responses, pc, fetch_i, commit_diffs, total_tokens, tier,
          large_days, small_days, large_i, pack_i, current_batch, current_tokens,
          all_changes, log, token_budget, built, by_day, fetched,
          all_branches, cursor, page, last_response, requests, returned,
          business_report_history, business_report, runs, week>>

\* the state of fetch_branches_with_dates
branch_vars == <<all_branches, cursor, page, last_response, requests, returned>>

\* the state of the business-report runs
report_vars == <<business_report_history, business_report, runs, week>>

\* what a step of process_repository leaves alone: the main loop's state and
\* the results of the direct calls
outer == <<github_activity_data, repo_i, repository_analyses, stored, errors, by_day, fetched,
           branch_vars, report_vars>>

\* lines 74-76: fetch_branches_with_dates before its first request
IdleBranches ==
    /\ all_branches = <<>>
    /\ cursor = None
    /\ page = 1
    /\ last_response = None
    /\ requests = 0
    /\ returned = None

\* the state of the main loop and of the direct calls
main_vars == <<github_activity_data, repo_i, repository_analyses, stored, errors, by_day, fetched>>

\* the state of a process_repository run
run_vars == <<commits, responses, fetch_i, commit_diffs, total_tokens, tier,
              large_days, small_days, large_i, pack_i, current_batch,
              current_tokens, all_changes, log, token_budget, built>>

\* nothing stored yet: fetch_data gives its default [] for the history
IdleReports ==
    /\ business_report_history = <<>>
    /\ business_report = [source |-> "absent", run |-> 0]
    /\ runs = 0
    /\ week = 1

\* what the log keeps of a call: the change records it returned (none when
\* it returned None or raised) and whether it raised
Outcome(result) == [changes |-> result.changes, raised |-> result.raised]

\* the entry of a call that is no Summarizer call carries no records
NoResult == [changes |-> <<>>, raised |-> FALSE]

Ids(cs) == [i \in 1..Len(cs) |-> cs[i].id]

FetchEntry(commit) ==
    [op |-> "fetch", ids |-> <<commit.id>>, token_budget |-> None, parts |-> <<>>,
     result |-> NoResult]

BuildEntry(cs, budget, parts) ==
    [op |-> "build", ids |-> Ids(cs), token_budget |-> budget, parts |-> parts,
     result |-> NoResult]

SummarizeEntry(cs, budget, parts, result) ==
    [op |-> "summarize", ids |-> Ids(cs), token_budget |-> budget, parts |-> parts,
     result |-> Outcome(result)]

SummarizeCalls(l) == SelectSeq(l, LAMBDA e : e.op = "summarize")

BuildCalls(l) == SelectSeq(l, LAMBDA e : e.op = "build")

(***************************************************************************)
(* The Summarizer (analyze_batch -> waveassist.call_llm) is a black box:   *)
(* it returns None or a RepositoryAnalysis whose change records are opaque *)
(* to the core (the n-th call's records are tagged with n), or it raises.  *)
(***************************************************************************)
SummarizerResults(n) ==
    { [none |-> TRUE,  changes |-> <<>>, raised |-> FALSE],
      [none |-> FALSE, changes |-> <<>>, raised |-> FALSE],
      [none |-> FALSE, changes |-> <<[call |-> n]>>, raised |-> FALSE] }

\* call_llm raises instead of returning
Raised == [none |-> TRUE, changes |-> <<>>, raised |-> TRUE]

\* process_batch_and_extend: the log and all_changes after handing cs over
BatchLog(l, cs, budget, result) ==
    LET batch_context == build_commit_context(cs, commit_diffs, budget)
    IN  l \o <<BuildEntry(cs, budget, batch_context),
               SummarizeEntry(cs, budget, batch_context, result)>>

\* BatchChanges with the list replaced by the call's records
BatchChanges_Replace(changes, result) ==
    IF result.none THEN changes ELSE result.changes

BatchChanges(changes, result) ==
    IF result.none THEN changes ELSE changes \o result.changes

process_batch_and_extend(cs, budget) ==
    \E result \in SummarizerResults(Len(SummarizeCalls(log)) + 1) :
        /\ log' = BatchLog(log, cs, budget, result)
        /\ all_changes' = BatchChanges(all_changes, result)

(***************************************************************************)
(* process_repository                                                      *)
(***************************************************************************)
\* lines 294-305
Start ==
    /\ pc = "start"
    /\ IF commits = <<>> THEN pc' = "done" ELSE pc' = "fetch"
    /\ UNCHANGED <<outer, commits, responses, fetch_i, commit_diffs, total_tokens, tier,
                   large_days, small_days, large_i, pack_i, current_batch,
                   current_tokens, all_changes, log, token_budget, built>>

\* commit_diffs[sha] = diffs
SetDiffs(diffs_map, sha, diffs) ==
    [s \in DOMAIN diffs_map \cup {sha} |-> IF s = sha THEN diffs ELSE diffs_map[s]]

\* StoreDiffs with the "if diffs" test of line 310 left out
StoreDiffs_Always(diffs_map, sha, diffs) == SetDiffs(diffs_map, sha, diffs)

\* lines 310-311: an empty result is not stored
StoreDiffs(diffs_map, sha, diffs) ==
    IF diffs # <<>> THEN SetDiffs(diffs_map, sha, diffs) ELSE diffs_map

\* one iteration of the loop of lines 306-311
FetchDiff ==
    /\ pc = "fetch"
    /\ LET commit == commits[fetch_i]
           sha    == commit.sha
           diffs  == fetch_commit_diff(responses[sha])
       IN  IF sha # ""
           THEN /\ log' = Append(log, FetchEntry(commit))
                /\ commit_diffs' = StoreDiffs(commit_diffs, sha, diffs)
           ELSE UNCHANGED <<log, commit_diffs>>
    /\ IF fetch_i = Len(commits)
       THEN pc' = "size" /\ UNCHANGED fetch_i
       ELSE fetch_i' = fetch_i + 1 /\ UNCHANGED pc
    /\ UNCHANGED <<outer, commits, responses, total_tokens, tier, large_days, small_days,
                   large_i, pack_i, current_batch, current_tokens, all_changes,
                   token_budget, built>>

\* requests.get of line 73 raises: it is outside the try of line 81, so the
\* exception leaves fetch_commit_diff and process_repository
FetchRaises ==
    /\ pc = "fetch"
    /\ commits[fetch_i].sha # ""
    /\ log' = Append(log, FetchEntry(commits[fetch_i]))
    /\ pc' = "raised"
    /\ UNCHANGED <<outer, commits, responses, fetch_i, commit_diffs, total_tokens, tier,
                   large_days, small_days, large_i, pack_i, current_batch,
                   current_tokens, all_changes, token_budget, built>>

\* SelectTier with the thresholds compared inclusively
SelectTier_Inclusive(total) ==
    IF total <= TIER_1_THRESHOLD THEN 1
    ELSE IF total <= TIER_2_THRESHOLD THEN 2
    ELSE 3

\* the tier chosen at lines 321, 329, 349
SelectTier(total) ==
    IF total < TIER_1_THRESHOLD THEN 1
    ELSE IF total < TIER_2_THRESHOLD THEN 2
    ELSE 3

\* lines 313-318
Sizing ==
    /\ pc = "size"
    /\ LET full_context == build_commit_context(commits, commit_diffs, None)
       IN  /\ total_tokens' = estimate_tokens(ContextLen(full_context))
           /\ log' = Append(log, BuildEntry(commits, None, full_context))
           /\ tier' = SelectTier(estimate_tokens(ContextLen(full_context)))
    /\ pc' = "tier"
    /\ UNCHANGED <<outer, commits, responses, fetch_i, commit_diffs, large_days, small_days,
                   large_i, pack_i, current_batch, current_tokens, all_changes,
                   token_budget, built>>

\* lines 321-326 and the return of line 385
Tier1 ==
    /\ pc = "tier" /\ tier = 1
    /\ process_batch_and_extend(commits, None)
    /\ pc' = "done"
    /\ UNCHANGED <<outer, commits, responses, fetch_i, commit_diffs, total_tokens, tier,
                   large_days, small_days, large_i, pack_i, current_batch,
                   current_tokens, token_budget, built>>

\* (day, day_commits, day_tokens) of lines 336-340 and 358-361
DayTuple(commits_by_day, day) ==
    [day |-> day, day_commits |-> commits_by_day[day],
     day_tokens |-> estimate_tokens(ContextLen(
                        build_commit_context(commits_by_day[day], commit_diffs, None)))]

DayData(commits_by_day) ==
    LET days == sorted_days(commits_by_day)
    IN  [i \in 1..Len(days) |-> DayTuple(commits_by_day, days[i])]

\* the build_commit_context calls made while sizing the days
DayBuilds(day_data) ==
    [i \in 1..Len(day_data) |->
        BuildEntry(day_data[i].day_commits, None,
                   build_commit_context(day_data[i].day_commits, commit_diffs, None))]

\* lines 329-346, up to the entry of process_small_days_batch (lines 261-262)
Tier2 ==
    /\ pc = "tier" /\ tier = 2
    /\ LET day_data == DayData(group_commits_by_day(commits))
       IN  /\ small_days' = day_data
           /\ log' = log \o DayBuilds(day_data)
    /\ current_batch' = <<>>
    /\ current_tokens' = 0
    /\ pack_i' = 1
    /\ pc' = "pack"
    /\ UNCHANGED <<outer, commits, responses, fetch_i, commit_diffs, total_tokens, tier,
                   large_days, large_i, all_changes, token_budget, built>>

\* IsLargeDay with a day of exactly the Tier-1 threshold counted as large
IsLargeDay_Inclusive(d) == d.day_tokens >= TIER_1_THRESHOLD

\* the test of line 363
IsLargeDay(d) == d.day_tokens > TIER_1_THRESHOLD

\* lines 349-366
Tier3 ==
    /\ pc = "tier" /\ tier = 3
    /\ LET day_data == DayData(group_commits_by_day(commits))
       IN  /\ large_days' = SelectSeq(day_data, IsLargeDay)
           /\ small_days' = SelectSeq(day_data, LAMBDA d : ~IsLargeDay(d))
           /\ log' = log \o DayBuilds(day_data)
    /\ large_i' = 1
    /\ pc' = "large"
    /\ UNCHANGED <<outer, commits, responses, fetch_i, commit_diffs, total_tokens, tier,
                   pack_i, current_batch, current_tokens, all_changes,
                   token_budget, built>>

\* budget_per_commit without the division by the number of commits
budget_per_commit_Whole(day_commits) == TIER_1_THRESHOLD

\* line 372
budget_per_commit(day_commits) == TIER_1_THRESHOLD \div Len(day_commits)

\* one iteration of the loop of lines 369-377
LargeDay ==
    /\ pc = "large" /\ large_i <= Len(large_days)
    /\ LET d == large_days[large_i]
       IN  IF d.day_tokens > TIER_1_THRESHOLD
           THEN process_batch_and_extend(d.day_commits,
                                         Some(budget_per_commit(d.day_commits)))
           ELSE UNCHANGED <<log, all_changes>>
    /\ large_i' = large_i + 1
    /\ UNCHANGED <<outer, commits, responses, pc, fetch_i, commit_diffs, total_tokens, tier,
                   large_days, small_days, pack_i, current_batch, current_tokens,
                   token_budget, built>>

\* line 380: the loop over the large days is over, process_small_days_batch
\* is entered (lines 261-262)
EnterPack ==
    /\ pc = "large" /\ large_i > Len(large_days)
    /\ current_batch' = <<>>
    /\ current_tokens' = 0
    /\ pack_i' = 1
    /\ pc' = "pack"
    /\ UNCHANGED <<outer, commits, responses, fetch_i, commit_diffs, total_tokens, tier,
                   large_days, small_days, large_i, all_changes, log,
                   token_budget, built>>

(***************************************************************************)
(* process_small_days_batch                                                *)
(***************************************************************************)
\* MustFlush comparing with >= instead of >
MustFlush_GE(batch, tokens, day_tokens) ==
    batch # <<>> /\ tokens + day_tokens >= batch_threshold

\* MustFlush looking at the day's size alone
MustFlush_DayOnly(batch, tokens, day_tokens) ==
    batch # <<>> /\ day_tokens > batch_threshold

\* MustFlush without the test for a non-empty running batch
MustFlush_AnyBatch(batch, tokens, day_tokens) ==
    tokens + day_tokens > batch_threshold

\* MustFlush testing the running size before the day is added
MustFlush_BatchOnly(batch, tokens, day_tokens) ==
    batch # <<>> /\ tokens > batch_threshold

\* the test of line 266
MustFlush(batch, tokens, day_tokens) ==
    batch # <<>> /\ tokens + day_tokens > batch_threshold

\* one iteration of the loop of lines 264-275
PackDay ==
    /\ pc = "pack" /\ pack_i <= Len(small_days)
    /\ LET d == small_days[pack_i]
       IN  IF MustFlush(current_batch, current_tokens, d.day_tokens)
           THEN /\ process_batch_and_extend(current_batch, None)
                /\ current_batch' = d.day_commits
                /\ current_tokens' = d.day_tokens
           ELSE /\ current_batch' = current_batch \o d.day_commits
                /\ current_tokens' = current_tokens + d.day_tokens
                /\ UNCHANGED <<log, all_changes>>
    /\ pack_i' = pack_i + 1
    /\ UNCHANGED <<outer, commits, responses, pc, fetch_i, commit_diffs, total_tokens, tier,
                   large_days, small_days, large_i, token_budget, built>>

\* lines 278-282 and the return of line 385
PackFinish ==
    /\ pc = "pack" /\ pack_i > Len(small_days)
    /\ IF current_batch # <<>>
       THEN process_batch_and_extend(current_batch, None)
       ELSE UNCHANGED <<log, all_changes>>
    /\ pc' = "done"
    /\ UNCHANGED <<outer, commits, responses, fetch_i, commit_diffs, total_tokens, tier,
                   large_days, small_days, large_i, pack_i, current_batch,
                   current_tokens, token_budget, built>>

(***************************************************************************)
(* A Summarizer call that raises.  process_batch_and_extend and            *)
(* process_repository have no handler, the exception leaves both and       *)
(* reaches the except clause of line 425.                                  *)
(***************************************************************************)
\* the (commits, token_budget) of the process_batch_and_extend call the run
\* is about to make, <<>> when its next step makes none
PendingBatch ==
    IF pc = "tier" /\ tier = 1
    THEN <<[cs |-> commits, budget |-> None]>>
    ELSE IF pc = "large" /\ large_i <= Len(large_days)
                /\ large_days[large_i].day_tokens > TIER_1_THRESHOLD
    THEN <<[cs |-> large_days[large_i].day_commits,
            budget |-> Some(budget_per_commit(large_days[large_i].day_commits))]>>
    ELSE IF pc = "pack" /\ pack_i <= Len(small_days)
                /\ MustFlush(current_batch, current_tokens, small_days[pack_i].day_tokens)
    THEN <<[cs |-> current_batch, budget |-> None]>>
    ELSE IF pc = "pack" /\ pack_i > Len(small_days) /\ current_batch # <<>>
    THEN <<[cs |-> current_batch, budget |-> None]>>
    ELSE <<>>

SummarizerRaises ==
    /\ PendingBatch # <<>>
    /\ log' = BatchLog(log, PendingBatch[1].cs, PendingBatch[1].budget, Raised)
    /\ pc' = "raised"
    /\ UNCHANGED <<outer, commits, responses, fetch_i, commit_diffs, total_tokens, tier,
                   large_days, small_days, large_i, pack_i, current_batch,
                   current_tokens, all_changes, token_budget, built>>

(***************************************************************************)
(* The main loop, lines 408-432                                            *)
(***************************************************************************)
\* the next iteration calls process_repository afresh, or the loop is over
NextRepository ==
    IF repo_i < Len(github_activity_data)
    THEN /\ repo_i' = repo_i + 1
         /\ commits' = github_activity_data[repo_i + 1].commits
         /\ responses' = github_activity_data[repo_i + 1].responses
         /\ pc' = "start"
         /\ fetch_i' = 1
         /\ commit_diffs' = [s \in {} |-> <<>>]
         /\ total_tokens' = 0
         /\ tier' = 0
         /\ large_days' = <<>>
         /\ small_days' = <<>>
         /\ large_i' = 1
         /\ pack_i' = 1
         /\ current_batch' = <<>>
         /\ current_tokens' = 0
         /\ all_changes' = <<>>
         /\ log' = <<>>
    ELSE /\ pc' = "end"
         /\ UNCHANGED <<repo_i, commits, responses, fetch_i, commit_diffs, total_tokens,
                        tier, large_days, small_days, large_i, pack_i, current_batch,
                        current_tokens, all_changes, log>>

\* the analysis a returned process_repository call contributes (lines 385-388)
Analysis(repository, changes) == [repository |-> repository, changes |-> changes]

\* lines 414-423 and 432: process_repository returned
RepoDone ==
    /\ pc = "done"
    /\ repository_analyses' =
           Append(repository_analyses,
                  Analysis(github_activity_data[repo_i].repository, all_changes))
    /\ stored' = repository_analyses'
    /\ NextRepository
    /\ UNCHANGED <<github_activity_data, errors, token_budget, built, by_day, fetched,
                   branch_vars, report_vars>>

\* FailedAnalysis with the records gathered before the exception kept
FailedAnalysis_KeepChanges(repository) == Analysis(repository, all_changes)

\* the entry of lines 427-430
FailedAnalysis(repository) == Analysis(repository, <<>>)

\* lines 425-432: process_repository raised
RepoFailed ==
    /\ pc = "raised"
    /\ errors' = Append(errors, github_activity_data[repo_i].repository)
    /\ repository_analyses' =
           Append(repository_analyses,
                  FailedAnalysis(github_activity_data[repo_i].repository))
    /\ stored' = repository_analyses'
    /\ NextRepository
    /\ UNCHANGED <<github_activity_data, token_budget, built, by_day, fetched,
                   branch_vars, report_vars>>

Next ==
    \/ Start
    \/ FetchDiff
    \/ Sizing
    \/ Tier1
    \/ Tier2
    \/ Tier3
    \/ LargeDay
    \/ EnterPack
    \/ PackDay
    \/ PackFinish
    \/ FetchRaises
    \/ SummarizerRaises
    \/ RepoDone
    \/ RepoFailed

(***************************************************************************)
(* A direct call of build_commit_context(commits, commit_diffs,            *)
(* token_budget)                                                           *)
(***************************************************************************)
BuildCall ==
    /\ pc = "build"
    /\ built' = build_commit_context(commits, commit_diffs, token_budget)
    /\ log' = Append(log, BuildEntry(commits, token_budget,
                          build_commit_context(commits, commit_diffs, token_budget)))
    /\ commit_diffs' = DiffsAfterBuild(commit_diffs, token_budget)
    /\ pc' = "built"
    /\ UNCHANGED <<outer, commits, responses, fetch_i, total_tokens, tier,
                   large_days, small_days, large_i, pack_i, current_batch,
                   current_tokens, all_changes, token_budget>>

\* the same call once more, with the arguments as the first call left them
BuildAgain ==
    /\ pc = "built"
    /\ built' = build_commit_context(commits, commit_diffs, token_budget)
    /\ log' = Append(log, BuildEntry(commits, token_budget,
                          build_commit_context(commits, commit_diffs, token_budget)))
    /\ commit_diffs' = DiffsAfterBuild(commit_diffs, token_budget)
    /\ pc' = "again"
    /\ UNCHANGED <<outer, commits, responses, fetch_i, total_tokens, tier,
                   large_days, small_days, large_i, pack_i, current_batch,
                   current_tokens, all_changes, token_budget>>

NextBuild ==
    \/ BuildCall
    \/ BuildAgain

(***************************************************************************)
(* A direct call of group_commits_by_day(commits)                          *)
(***************************************************************************)
GroupCall ==
    /\ pc = "group"
    /\ by_day' = group_commits_by_day(commits)
    /\ pc' = "grouped"
    /\ UNCHANGED <<github_activity_data, repo_i, repository_analyses, stored, errors, fetched,
                   commits, responses, fetch_i, commit_diffs, total_tokens, tier,
                   large_days, small_days, large_i, pack_i, current_batch,
                   current_tokens, all_changes, log, token_budget, built,
                   branch_vars, report_vars>>

NextGroup == GroupCall

(***************************************************************************)
(* A direct call of fetch_commit_diff(repo_path, sha, headers); the        *)
(* collaborator's answer for the sha is responses[sha]                     *)
(***************************************************************************)
FetchCall ==
    /\ pc = "fetchcall"
    /\ \E sha \in DOMAIN responses : fetched' = fetch_commit_diff(responses[sha])
    /\ pc' = "fetched"
    /\ UNCHANGED <<github_activity_data, repo_i, repository_analyses, stored, errors, by_day,
                   commits, responses, fetch_i, commit_diffs, total_tokens, tier,
                   large_days, small_days, large_i, pack_i, current_batch,
                   current_tokens, all_changes, log, token_budget, built,
                   branch_vars, report_vars>>

NextFetch == FetchCall

(***************************************************************************)
(* Inputs                                                                  *)
(***************************************************************************)
\* longest commit list of a process_repository run
MaxCommits == 3

\* most days handed to the packer in the packing runs
MaxDays == 4

\* longest commit list of a direct build_commit_context call
MaxBuildCommits == 2

Shas == <<"sha1", "sha2", "sha3", "sha4", "sha5", "sha6", "sha7">>

README == <<"R","E","A","D","M","E">>

a_py == <<"a",".","p","y">>

b_py == <<"b",".","p","y">>

i_PNG == <<"i",".","P","N","G">>

\* responses of the diff-fetch collaborator
NotFound == [status |-> 404, files |-> <<>>]

SomeFiles ==
    [status |-> 200,
     files |-> << [filename |-> README, patch |-> 0,     status |-> "modified"],
                  [filename |-> a_py,   patch |-> 95000, status |-> "modified"],
                  [filename |-> i_PNG,  patch |-> 50,    status |-> "added"],
                  [filename |-> b_py,   patch |-> 300,   status |-> "added"] >>]

\* message lengths and responses of the commits of a run: a short message
\* with and without diffs, and messages that put a lone dated commit at
\* 99,999 / 100,000 / 699,999 / 700,000 estimated tokens
Payloads ==
    { [message |-> 13,      response |-> NotFound],
      [message |-> 13,      response |-> SomeFiles],
      [message |-> 299930,  response |-> NotFound],
      [message |-> 299933,  response |-> NotFound],
      [message |-> 2099930, response |-> NotFound],
      [message |-> 2099933, response |-> NotFound] }

Timestamps == {"2024-01-01T10:00:00Z", "2024-01-02T08:30:00+00:00", ""}

AuthorName == <<"a","l","i","c","e">>

MkCommit(i, message, timestamp) ==
    [id |-> i, sha |-> Shas[i], message |-> message, author |-> Len(AuthorName),
     timestamp |-> timestamp]

InitRun(cs, rs) ==
    /\ github_activity_data = <<[repository |-> "owner/repo1", commits |-> cs, responses |-> rs]>>
    /\ repo_i = 1
    /\ repository_analyses = <<>>
    /\ stored = <<>>
    /\ errors = <<>>
    /\ by_day = [d \in {} |-> <<>>]
    /\ fetched = <<>>
    /\ IdleBranches
    /\ IdleReports
    /\ commits = cs
    /\ responses = rs
    /\ pc = "start"
    /\ fetch_i = 1
    /\ commit_diffs = [s \in {} |-> <<>>]
    /\ total_tokens = 0
    /\ tier = 0
    /\ large_days = <<>>
    /\ small_days = <<>>
    /\ large_i = 1
    /\ pack_i = 1
    /\ current_batch = <<>>
    /\ current_tokens = 0
    /\ all_changes = <<>>
    /\ log = <<>>
    /\ token_budget = None
    /\ built = <<>>

\* a run of process_repository on up to MaxCommits commits
Init ==
    \E n \in 0..MaxCommits :
        \E payload \in [1..n -> Payloads], stamp \in [1..n -> Timestamps] :
            InitRun([i \in 1..n |-> MkCommit(i, payload[i].message, stamp[i])],
                    [s \in {Shas[i] : i \in 1..n} |->
                        payload[CHOOSE i \in 1..n : Shas[i] = s].response])

Spec == Init /\ [][Next]_vars

(***************************************************************************)
(* Packing runs: process_repository on one commit per day of a run of days, *)
(* no diffs, the message lengths chosen so that the days weigh 30,000 /    *)
(* 60,000 / 60,001 / 95,000 / 700,000 estimated tokens.                    *)
(***************************************************************************)
PackStamps ==
    <<"2024-01-01T10:00:00Z", "2024-01-02T21:15:00Z", "2024-01-03T23:59:59Z",
      "2024-01-04T00:00:00Z", "2024-01-05T12:00:00Z">>

PackMessages == {89933, 179933, 179936, 284933, 2099933}

\* the commits come oldest first or newest first
InitPack ==
    \E n \in 1..MaxDays :
        \E message \in [1..n -> PackMessages], newest_first \in BOOLEAN :
            InitRun([i \in 1..n |->
                        MkCommit(i, message[i],
                                 PackStamps[IF newest_first THEN n + 1 - i ELSE i])],
                    [s \in {Shas[i] : i \in 1..n} |-> NotFound])

SpecPack == InitPack /\ [][Next]_vars

(***************************************************************************)
(* Repositories of one commit a day whose days sit at the Tier-1           *)
(* threshold: the least number of days no larger than the threshold that   *)
(* reaches Tier 3 is TIER_2_THRESHOLD \div TIER_1_THRESHOLD                 *)
(***************************************************************************)
WideDays == TIER_2_THRESHOLD \div TIER_1_THRESHOLD

\* a commit without timestamp and six dated days
WideStamps == <<"">> \o PackStamps \o <<"2024-01-06T06:00:00Z">>

\* a dated commit of exactly 100,000 tokens and one of 100,001 tokens
WideMessages == {299933, 299936}

InitWide ==
    \E n \in 1..WideDays :
        \E message \in [1..n -> WideMessages] :
            InitRun([i \in 1..n |-> MkCommit(i, message[i], WideStamps[i])],
                    [s \in {Shas[i] : i \in 1..n} |-> NotFound])

SpecWide == InitWide /\ [][Next]_vars

(***************************************************************************)
(* Repositories of one commit a day whose commits do not come in the order *)
(* of their days, the first without a timestamp; a commit is a day of      *)
(* 60,000 tokens or one of 700,000                                         *)
(***************************************************************************)
OrderStamps ==
    { <<"", "2024-01-03T23:59:59Z", "2024-01-01T10:00:00Z", "2024-01-05T12:00:00Z",
        "2024-01-02T21:15:00Z">>,
      <<"2024-01-04T00:00:00Z", "", "2024-01-01T10:00:00Z">>,
      <<"2024-01-02T21:15:00Z">> }

OrderMessages == {179933, 2099933}

InitOrder ==
    \E stamps \in OrderStamps :
        \E message \in [1..Len(stamps) -> OrderMessages] :
            InitRun([i \in 1..Len(stamps) |-> MkCommit(i, message[i], stamps[i])],
                    [s \in {Shas[i] : i \in 1..Len(stamps)} |-> NotFound])

SpecOrder == InitOrder /\ [][Next]_vars

(***************************************************************************)
(* The main loop over several repositories: one without commits, one of    *)
(* Tier 1, one whose first commit has no sha and whose second has no       *)
(* diffs, one of Tier 2 (two days of 60,000 tokens) and one of Tier 3 (a   *)
(* large day of two commits and a small day)                               *)
(***************************************************************************)
MaxRepos == 2

NoSha(commit) == [commit EXCEPT !.sha = ""]

Repositories ==
    { [repository |-> "owner/empty", commits |-> <<>>,
       responses |-> [s \in {} |-> NotFound]],
      [repository |-> "owner/tier1",
       commits |-> <<MkCommit(1, 13, "2024-01-01T10:00:00Z")>>,
       responses |-> [s \in {Shas[1]} |-> SomeFiles]],
      [repository |-> "owner/nosha",
       commits |-> <<NoSha(MkCommit(1, 13, "2024-01-01T10:00:00Z")),
                     MkCommit(2, 13, "2024-01-02T21:15:00Z")>>,
       responses |-> [s \in {Shas[2]} |-> NotFound]],
      [repository |-> "owner/tier2",
       commits |-> <<MkCommit(1, 179933, "2024-01-01T10:00:00Z"),
                     MkCommit(2, 179933, "2024-01-02T21:15:00Z")>>,
       responses |-> [s \in {Shas[1], Shas[2]} |-> NotFound]],
      [repository |-> "owner/tier3",
       commits |-> <<MkCommit(1, 2099933, "2024-01-01T10:00:00Z"),
                     MkCommit(2, 13, "2024-01-01T10:00:00Z"),
                     MkCommit(3, 13, "2024-01-02T21:15:00Z")>>,
       responses |-> [s \in {Shas[1], Shas[2], Shas[3]} |->
                         IF s = Shas[3] THEN SomeFiles ELSE NotFound]] }

\* github_activity_data is a dict: a repository occurs once
InitMain ==
    \E n \in 0..MaxRepos :
        \E data \in [1..n -> Repositories] :
            /\ \A i, j \in 1..n : data[i] = data[j] => i = j
            /\ github_activity_data = data
            /\ repo_i = 1
            /\ repository_analyses = <<>>
            /\ stored = <<>>
            /\ errors = <<>>
            /\ by_day = [d \in {} |-> <<>>]
            /\ fetched = <<>>
            /\ IdleBranches
            /\ IdleReports
            /\ commits = IF n = 0 THEN <<>> ELSE data[1].commits
            /\ responses = IF n = 0 THEN [s \in {} |-> NotFound] ELSE data[1].responses
            /\ pc = IF n = 0 THEN "end" ELSE "start"
            /\ fetch_i = 1
            /\ commit_diffs = [s \in {} |-> <<>>]
            /\ total_tokens = 0
            /\ tier = 0
            /\ large_days = <<>>
            /\ small_days = <<>>
            /\ large_i = 1
            /\ pack_i = 1
            /\ current_batch = <<>>
            /\ current_tokens = 0
            /\ all_changes = <<>>
            /\ log = <<>>
            /\ token_budget = None
            /\ built = <<>>

SpecMain == InitMain /\ [][Next]_vars

(***************************************************************************)
(* Direct calls of the pure functions start from their arguments alone     *)
(***************************************************************************)
InitCore(cs, rs, at) ==
    /\ github_activity_data = <<>>
    /\ repo_i = 1
    /\ repository_analyses = <<>>
    /\ stored = <<>>
    /\ errors = <<>>
    /\ by_day = [d \in {} |-> <<>>]
    /\ fetched = <<>>
    /\ IdleBranches
    /\ commits = cs
    /\ responses = rs
    /\ pc = at
    /\ fetch_i = 1
    /\ commit_diffs = [s \in {} |-> <<>>]
    /\ total_tokens = 0
    /\ tier = 0
    /\ large_days = <<>>
    /\ small_days = <<>>
    /\ large_i = 1
    /\ pack_i = 1
    /\ current_batch = <<>>
    /\ current_tokens = 0
    /\ all_changes = <<>>
    /\ log = <<>>
    /\ token_budget = None
    /\ built = <<>>

InitDirect(cs, rs, at) == InitCore(cs, rs, at) /\ IdleReports

(***************************************************************************)
(* Direct calls of group_commits_by_day: commits with dated timestamps     *)
(* (two of the same day in different notations, one with a zone offset),   *)
(* with an empty one, with one that is no date, and without the key        *)
(***************************************************************************)
MaxGroupCommits == 3

GroupStamps ==
    {"2024-01-01T10:00:00Z", "2024-01-02T08:30:00+00:00", "2024-01-02T21:15:00Z",
     "2024-01-01T23:30:00-05:00", "", "yesterday"}

\* a commit record without the "timestamp" key
MkUndatedCommit(i, message) ==
    [id |-> i, sha |-> Shas[i], message |-> message, author |-> Len(AuthorName)]

GroupCommits(i) ==
    {MkCommit(i, Len(AuthorName), t) : t \in GroupStamps}
        \cup {MkUndatedCommit(i, Len(AuthorName))}

InitGroup ==
    \E n \in 0..MaxGroupCommits :
        \E cs \in [1..n -> UNION {GroupCommits(i) : i \in 1..n}] :
            /\ \A i \in 1..n : cs[i] \in GroupCommits(i)
            /\ InitDirect(cs, [s \in {} |-> NotFound], "group")

SpecGroup == InitGroup /\ [][NextGroup]_vars

(***************************************************************************)
(* Direct calls of fetch_commit_diff: answers with status 200 or 404 and   *)
(* raw files whose names have no dot, a code extension, a non-code         *)
(* extension in lower, upper and mixed case, two dots, a leading dot or a  *)
(* trailing dot, and whose patches are absent, at the size limit, or one   *)
(* character above it                                                      *)
(***************************************************************************)
MaxRawFiles == 2

yarn_lock == <<"y","a","r","n",".","l","o","c","k">>

x_tar_GZ == <<"x",".","t","a","r",".","G","Z">>

dot_gitignore == <<".","g","i","t","i","g","n","o","r","e">>

zip_dot == <<"z","i","p",".">>

d_zip_py == <<"d",".","z","i","p",".","p","y">>

p_Pdf == <<"p",".","P","d","f">>

RawNames == {README, a_py, i_PNG, yarn_lock, x_tar_GZ, dot_gitignore, zip_dot, d_zip_py, p_Pdf}

RawPatches == {0, MAX_FILE_DIFF_SIZE, MAX_FILE_DIFF_SIZE + 1}

RawFiles ==
    {[filename |-> name, patch |-> n, status |-> "modified"] :
        name \in RawNames, n \in RawPatches}

FetchResponses ==
    {[status |-> code, files |-> files] :
        code \in {200, 404},
        files \in UNION {[1..n -> RawFiles] : n \in 0..MaxRawFiles}}

InitFetch ==
    \E response \in FetchResponses :
        InitDirect(<<>>, [s \in {Shas[1]} |-> response], "fetchcall")

SpecFetch == InitFetch /\ [][NextFetch]_vars

(***************************************************************************)
(* Direct calls of build_commit_context                                    *)
(***************************************************************************)
BuildMessages == {5, 60}

BuildFileLists ==
    { << [filename |-> b_py, patch |-> 30, status |-> "added", marker |-> FALSE] >>,
      << [filename |-> a_py,   patch |-> 400, status |-> "modified", marker |-> FALSE],
         [filename |-> README, patch |-> 0,   status |-> "modified", marker |-> FALSE],
         [filename |-> b_py,   patch |-> 30,  status |-> "added",    marker |-> FALSE] >>,
      << [filename |-> dot_gitignore, patch |-> 30, status |-> "modified", marker |-> FALSE],
         [filename |-> b_py,   patch |-> 30,  status |-> "added",    marker |-> FALSE],
         [filename |-> README, patch |-> 0,   status |-> "modified", marker |-> FALSE] >>,
      << [filename |-> a_py,   patch |-> 1000, status |-> "modified", marker |-> FALSE],
         [filename |-> b_py,   patch |-> 900,  status |-> "added",    marker |-> FALSE] >> }

\* <<>> stands for "no entry in the map"
BuildDiffs == BuildFileLists \cup {<<>>}

Budgets == {None, Some(0), Some(20), Some(48), Some(60), Some(120), Some(200)}

InitBuild ==
    \E n \in 0..MaxBuildCommits :
        \E message \in [1..n -> BuildMessages], diffs \in [1..n -> BuildDiffs],
           budget \in Budgets :
            /\ commits = [i \in 1..n |-> MkCommit(i, message[i], "2024-01-01T10:00:00Z")]
            /\ responses = [s \in {} |-> NotFound]
            /\ pc = "build"
            /\ fetch_i = 1
            /\ commit_diffs = [s \in {Shas[i] : i \in {j \in 1..n : diffs[j] # <<>>}} |->
                                  diffs[CHOOSE i \in 1..n : Shas[i] = s]]
            /\ total_tokens = 0
            /\ tier = 0
            /\ large_days = <<>>
            /\ small_days = <<>>
            /\ large_i = 1
            /\ pack_i = 1
            /\ current_batch = <<>>
            /\ current_tokens = 0
            /\ all_changes = <<>>
            /\ log = <<>>
            /\ token_budget = budget
            /\ built = <<>>
            /\ github_activity_data = <<>>
            /\ repo_i = 1
            /\ repository_analyses = <<>>
            /\ stored = <<>>
            /\ errors = <<>>
            /\ by_day = [d \in {} |-> <<>>]
            /\ fetched = <<>>
            /\ IdleBranches
            /\ IdleReports

SpecBuild == InitBuild /\ [][NextBuild]_vars

(***************************************************************************)
(* fetch_branches_with_dates (src/fetch_github_activity.py), from line 73  *)
(* on: the repository path has been split into owner and name.  The        *)
(* GraphQL server is a black box: a request may raise, come back with a    *)
(* status other than 200, with GraphQL errors, with a body that is no      *)
(* JSON, or with a page of nodes.  A node is [name, target]; the name is a *)
(* pair (page, position), <<>> for an empty name; the target is null or    *)
(* holds a committedDate.                                                  *)
(***************************************************************************)
MAX_PAGES == 50

CommittedDate == "2024-01-01T10:00:00Z"

GoodNode(p, k) ==
    [name |-> <<p, k>>, target |-> [null |-> FALSE, committedDate |-> CommittedDate]]

NoNameNode ==
    [name |-> <<>>, target |-> [null |-> FALSE, committedDate |-> CommittedDate]]

NoDateNode(p, k) ==
    [name |-> <<p, k>>, target |-> [null |-> FALSE, committedDate |-> ""]]

\* "target": null, on which .get raises AttributeError
NullTargetNode(p, k) ==
    [name |-> <<p, k>>, target |-> [null |-> TRUE, committedDate |-> ""]]

\* the nodes the server holds on page p
PageNodes(p) ==
    CASE p % 3 = 1 -> <<GoodNode(p, 1)>>
      [] p % 3 = 2 -> <<GoodNode(p, 1), NoNameNode, NoDateNode(p, 3), GoodNode(p, 4)>>
      [] OTHER -> <<>>

\* a page whose second node has a null target
BrokenNodes(p) == <<GoodNode(p, 1), NullTargetNode(p, 2), GoodNode(p, 3)>>

BranchResponse(kind, status_code, nodes, hasNextPage, endCursor) ==
    [kind |-> kind, status_code |-> status_code, nodes |-> nodes,
     hasNextPage |-> hasNextPage, endCursor |-> endCursor]

\* what requests.post may give for the request of page p
BranchResponses(p) ==
    { BranchResponse("post_raises", 0, <<>>, FALSE, 0),
      BranchResponse("status", 502, <<>>, FALSE, 0),
      BranchResponse("errors", 200, <<>>, FALSE, 0),
      BranchResponse("json_raises", 200, <<>>, FALSE, 0),
      BranchResponse("page", 200, BrokenNodes(p), TRUE, p) }
    \cup { BranchResponse("page", 200, PageNodes(p), more, p) : more \in BOOLEAN }

\* lines 107-114: the loop over the nodes of a page; raised when a node's
\* target is null
RECURSIVE ProcessNodes(_, _)
ProcessNodes(nodes, branches) ==
    IF nodes = <<>> THEN [branches |-> branches, raised |-> FALSE]
    ELSE LET branch == Head(nodes)
         IN  IF branch.target.null THEN [branches |-> branches, raised |-> TRUE]
             ELSE IF branch.name # <<>> /\ branch.target.committedDate # ""
                  THEN ProcessNodes(Tail(nodes),
                           Append(branches, [name |-> branch.name,
                                             committedDate |-> branch.target.committedDate]))
                  ELSE ProcessNodes(Tail(nodes), branches)

\* OverLimit with one page more allowed
OverLimit_Late(p) == p > MAX_PAGES + 1

\* line 125
OverLimit(p) == p > MAX_PAGES

\* line 129 and line 133: return all_branches
ReturnBranches ==
    /\ returned' = Some(all_branches')
    /\ pc' = "returned"

\* one iteration of the loop of lines 79-127, with the return it leads to
FetchPage ==
    /\ pc = "branches"
    /\ \E r \in BranchResponses(page) :
           /\ last_response' = r
           /\ requests' = requests + 1
           /\ IF r.kind \in {"post_raises", "json_raises"} \/ r.status_code # 200
                  \/ r.kind = "errors"
              THEN /\ UNCHANGED <<all_branches, cursor, page>>
                   /\ ReturnBranches
              ELSE LET processed == ProcessNodes(r.nodes, all_branches)
                   IN  /\ all_branches' = processed.branches
                       /\ IF processed.raised \/ ~r.hasNextPage
                          THEN /\ ReturnBranches
                               /\ UNCHANGED <<cursor, page>>
                          ELSE /\ cursor' = Some(r.endCursor)
                               /\ page' = page + 1
                               /\ IF OverLimit(page')
                                  THEN ReturnBranches
                                  ELSE UNCHANGED <<pc, returned>>
    /\ UNCHANGED <<main_vars, run_vars, report_vars>>

NextBranches == FetchPage

InitBranches == InitDirect(<<>>, [s \in {} |-> NotFound], "branches")

\* the loop runs on: nothing but its own steps can keep it from its next one
SpecBranches == InitBranches /\ [][NextBranches]_vars /\ WF_vars(NextBranches)

(***************************************************************************)
(* generate_business_report.py, run again and again on the same store.     *)
(* A run reads the stored history, and either finds no change records, or  *)
(* calls the LLM, which returns a report, returns None, or raises.  A      *)
(* stored report is [source, run]: where it came from and the run that     *)
(* wrote it; a history entry is [week, report].                            *)
(***************************************************************************)
MaxRuns == 4

\* datetime.now(timezone.utc): the day of the run, no earlier than the last
Now == {week, week + 1}

\* history_list[-1:] with the last two entries kept
LastOne_KeepTwo(history_list) ==
    IF Len(history_list) <= 2 THEN history_list
    ELSE SubSeq(history_list, Len(history_list) - 1, Len(history_list))

\* history_list[-1:]
LastOne(history_list) ==
    IF history_list = <<>> THEN <<>> ELSE <<history_list[Len(history_list)]>>

\* lines 165-172: total_changes == 0
ReportNoActivity ==
    /\ pc = "report" /\ runs < MaxRuns
    /\ runs' = runs + 1
    /\ \E current_week \in Now : week' = current_week
    /\ business_report' = [source |-> "no activity", run |-> runs']
    /\ UNCHANGED <<business_report_history, pc, main_vars, run_vars, branch_vars>>

\* lines 191-207: call_llm returned a report
ReportGenerated ==
    /\ pc = "report" /\ runs < MaxRuns
    /\ runs' = runs + 1
    /\ \E current_week \in Now : week' = current_week
    /\ business_report' = [source |-> "llm", run |-> runs']
    /\ business_report_history' =
           Append(LastOne(business_report_history),
                  [week |-> week', report |-> business_report'])
    /\ UNCHANGED <<pc, main_vars, run_vars, branch_vars>>

\* lines 209-215: call_llm returned None
ReportFallback ==
    /\ pc = "report" /\ runs < MaxRuns
    /\ runs' = runs + 1
    /\ \E current_week \in Now : week' = current_week
    /\ business_report' = [source |-> "fallback", run |-> runs']
    /\ UNCHANGED <<business_report_history, pc, main_vars, run_vars, branch_vars>>

\* call_llm raised: the script ends at line 183 with nothing stored
ReportRaises ==
    /\ pc = "report" /\ runs < MaxRuns
    /\ runs' = runs + 1
    /\ \E current_week \in Now : week' = current_week
    /\ UNCHANGED <<business_report, business_report_history, pc, main_vars, run_vars,
                   branch_vars>>

NextReport ==
    \/ ReportNoActivity
    \/ ReportGenerated
    \/ ReportFallback
    \/ ReportRaises

\* the store is empty before the first run
InitReport ==
    /\ InitCore(<<>>, [s \in {} |-> NotFound], "report")
    /\ IdleReports

SpecReport == InitReport /\ [][NextReport]_vars

(***************************************************************************)
(* Properties                                                              *)
(***************************************************************************)
\* the Summarizer calls made so far, in invocation order
Calls == SummarizeCalls(log)

\* estimated size of the context of a Summarizer call
CallTokens(e) == estimate_tokens(ContextLen(e.parts))

RECURSIVE ConcatIds(_)
ConcatIds(entries) ==
    IF entries = <<>> THEN <<>> ELSE Head(entries).ids \o ConcatIds(Tail(entries))

\* the commit ids of the blocks of a blob, in order
BlockIds(parts) == [k \in 1..Len(parts) |-> parts[k].id]

Count(seq, x) == Cardinality({k \in 1..Len(seq) : seq[k] = x})

Finished == pc = "done" /\ commits # <<>>

\* C1: every Summarizer call of process_repository, in any tier, submits a
\* context whose estimated size is at most the Tier-1 threshold of 100,000.
C1_CallWithinCeiling ==
    \A k \in 1..Len(Calls) : CallTokens(Calls[k]) <= 100000

\* C2: the commit lists handed to process_batch_and_extend during one run,
\* concatenated in processing order, contain every input commit exactly once:
\* never a commit twice, and at the end of the run none is missing.
C2_BatchesCoverCommitsOnce ==
    /\ \A i \in 1..Len(commits) : Count(ConcatIds(Calls), i) <= 1
    /\ Finished => \A i \in 1..Len(commits) : Count(ConcatIds(Calls), i) = 1

C2_Witness ==
    /\ Finished /\ tier = 3 /\ Len(commits) = 3
    /\ large_days # <<>> /\ small_days # <<>> /\ Len(Calls) >= 2

\* C3: in Tier 3 the context built for a large day with its budget holds a
\* block for every commit of that day (budgeted truncation never omits a
\* whole commit from the Summarizer call).
C3_LargeDayKeepsEveryCommit ==
    \A k \in 1..Len(Calls) :
        Calls[k].token_budget # None => BlockIds(Calls[k].parts) = Calls[k].ids

C5_TierOneSingleCall ==
    (Finished /\ tier = 1) =>
        /\ Len(Calls) = 1
        /\ Calls[1].token_budget = None
        /\ Calls[1].ids = Ids(commits)
        /\ BlockIds(Calls[1].parts) = Ids(commits)
        /\ CallTokens(Calls[1]) = total_tokens
        /\ \A k \in 1..Len(Calls[1].parts) :
              \A j \in 1..Len(Calls[1].parts[k].files) :
                  Calls[1].parts[k].files[j].shown # "notice"

C5_Witness ==
    /\ Finished /\ tier = 1 /\ Len(commits) >= 2 /\ Len(Calls) = 1
    /\ commit_diffs # <<>>

\* the sizes of the days handed to the packer
DaySizes == [i \in 1..Len(small_days) |-> small_days[i].day_tokens]

ThreeDaysOf60000 ==
    /\ Finished /\ tier = 2
    /\ DaySizes = <<60000, 60000, 60000>>

\* C6 as stated: three consecutive days of 60,000 each under the threshold
\* of 90,000 give exactly 2 batches, day 1 alone and then day 2 with day 3.
C6_ThreeDaysTwoBatches ==
    ThreeDaysOf60000 =>
        /\ Len(Calls) = 2
        /\ Calls[1].ids = Ids(small_days[1].day_commits)
        /\ Calls[2].ids = Ids(small_days[2].day_commits \o small_days[3].day_commits)

\* C6 as amended: three consecutive days of 60,000 each under the threshold
\* of 90,000 give exactly 3 batches and 3 Summarizer calls, one per day in
\* day order (60,000 + 60,000 exceeds 90,000 at day 2 and again at day 3).
C6_ThreeDaysThreeBatches ==
    ThreeDaysOf60000 =>
        /\ Len(Calls) = 3
        /\ \A k \in 1..3 : Calls[k].ids = Ids(small_days[k].day_commits)

C6_Witness == ThreeDaysOf60000 /\ Len(Calls) = 3

\* the greedy reference packer: the batches (as commit ids) it emits for days
RECURSIVE GreedyBatches(_, _, _, _)
GreedyBatches(days, batch, size, out) ==
    IF days = <<>>
    THEN IF batch # <<>> THEN Append(out, batch) ELSE out
    ELSE IF batch # <<>> /\ size + Head(days).day_tokens > 90000
         THEN GreedyBatches(Tail(days), Ids(Head(days).day_commits),
                            Head(days).day_tokens, Append(out, batch))
         ELSE GreedyBatches(Tail(days), batch \o Ids(Head(days).day_commits),
                            size + Head(days).day_tokens, out)

\* the batches process_small_days_batch has submitted (its calls carry no budget)
PackerBatches ==
    LET unbudgeted == SelectSeq(Calls, LAMBDA e : e.token_budget = None)
    IN  [k \in 1..Len(unbudgeted) |-> unbudgeted[k].ids]

KeyIndex(day) == CHOOSE k \in 1..Len(SortedKeys) : SortedKeys[k] = day

\* C7: process_small_days_batch emits exactly the batches of the greedy
\* reference packer (days in ascending day-key order, a flush before a day
\* iff the running batch is non-empty and running size + day size > 90,000,
\* a final flush of a non-empty batch); no empty batch is ever submitted.
C7_PackerIsGreedy ==
    /\ \A i \in 1..Len(small_days) : \A j \in 1..Len(small_days) :
           i < j => KeyIndex(small_days[i].day) < KeyIndex(small_days[j].day)
    /\ \A k \in 1..Len(Calls) : Calls[k].ids # <<>>
    /\ (Finished /\ tier \in {2, 3}) =>
           PackerBatches = GreedyBatches(small_days, <<>>, 0, <<>>)

C7_Witness ==
    /\ Finished /\ tier = 2 /\ Len(small_days) = 3
    /\ DaySizes[1] + DaySizes[2] = 90000
    /\ PackerBatches = << Ids(small_days[1].day_commits \o small_days[2].day_commits),
                          Ids(small_days[3].day_commits) >>

\* the packer is about to process a day whose own size exceeds the threshold
AtOversizedDay ==
    /\ pc = "pack" /\ pack_i <= Len(small_days)
    /\ small_days[pack_i].day_tokens > 90000

\* the packer has just left a day whose own size exceeds the threshold
AfterOversizedDay ==
    /\ pc = "pack" /\ pack_i > 1
    /\ small_days[pack_i - 1].day_tokens > 90000

\* C8 as stated: a day whose own size exceeds the threshold is appended to
\* the batch that was running when it was reached, without a flush before it.
C8_NoFlushBeforeOversizedDay ==
    [][AtOversizedDay => (log' = log /\ current_batch' = current_batch \o small_days[pack_i].day_commits)]_vars

\* C8 as amended: a day whose own size exceeds the threshold is never split;
\* it is appended without a flush only when the running batch is empty,
\* otherwise the running batch is flushed first; either way the day then is
\* the whole running batch (unless the Summarizer call of that flush raises,
\* which ends the run), and that batch is submitted by the next step of the
\* packer (the following day, or the final flush).
C8_OversizedDayStartsBatch ==
    [][ /\ AtOversizedDay =>
              /\ (log' = log) <=> (current_batch = <<>>)
              /\ log' # log =>
                    /\ Len(SummarizeCalls(log')) = Len(Calls) + 1
                    /\ SummarizeCalls(log')[Len(Calls) + 1].ids = Ids(current_batch)
              /\ pc' # "raised" => current_batch' = small_days[pack_i].day_commits
        /\ AfterOversizedDay =>
              /\ Len(SummarizeCalls(log')) = Len(Calls) + 1
              /\ SummarizeCalls(log')[Len(Calls) + 1].ids
                     = Ids(small_days[pack_i - 1].day_commits) ]_vars

C8_Witness ==
    /\ pc = "pack" /\ pack_i > 2 /\ pack_i <= Len(small_days)
    /\ small_days[pack_i - 1].day_tokens > 90000
    /\ current_batch = small_days[pack_i - 1].day_commits
    /\ Len(Calls) >= 1

\* the log entries of the large day d: its budgeted builds and Summarizer calls
LargeDayEntries(d) ==
    SelectSeq(log, LAMBDA e : e.token_budget # None /\ e.ids = Ids(d.day_commits))

\* the large day i has been handed over: the loop is past it, or the Summarizer
\* call for it raised and ended the run
LargeDayHandled(i) ==
    \/ i < large_i
    \/ i = large_i /\ log # <<>> /\ log[Len(log)].result.raised

\* C9: in Tier 3, for each large day with n commits, build_commit_context is
\* invoked exactly once with token_budget = 100,000 // n, and exactly one
\* Summarizer call follows for the whole day (the day is never split).
C9_LargeDayBudget ==
    /\ \A e \in {log[k] : k \in 1..Len(log)} :
           e.token_budget # None =>
               /\ tier = 3
               /\ \E i \in 1..Len(large_days) : e.ids = Ids(large_days[i].day_commits)
    /\ \A i \in 1..Len(large_days) :
           LET d == large_days[i]
               entries == LargeDayEntries(d)
           IN  IF LargeDayHandled(i)
               THEN /\ Len(entries) = 2
                    /\ entries[1].op = "build" /\ entries[2].op = "summarize"
                    /\ entries[1].token_budget = Some(100000 \div Len(d.day_commits))
                    /\ entries[2].token_budget = entries[1].token_budget
                    /\ entries[2].parts = entries[1].parts
                    /\ \E k \in 1..(Len(log) - 1) : log[k] = entries[1] /\ log[k+1] = entries[2]
               ELSE entries = <<>>

C9_Witness ==
    /\ Finished /\ tier = 3
    /\ \E i \in 1..Len(large_days) :
           /\ Len(large_days[i].day_commits) = 2
           /\ \E k \in 1..Len(Calls) :
                  /\ Calls[k].ids = Ids(large_days[i].day_commits)
                  /\ Calls[k].token_budget = Some(50000)

\* C10: build_commit_context(commits, diff_map, token_budget=0) returns the
\* empty string for every commit list and diff map.
C10_ZeroBudgetEmpty ==
    (pc = "built" /\ token_budget = Some(0)) => built = <<>>

\* the characters of the full lines of files, each with its whole patch
RECURSIVE FullFilesLen(_)
FullFilesLen(files) ==
    IF files = <<>> THEN 0 ELSE FileTextLen(Head(files)) + FullFilesLen(Tail(files))

\* the files the map holds for a commit, none when it has no entry
FilesOf(commit) ==
    IF commit.sha \in DOMAIN commit_diffs THEN commit_diffs[commit.sha] ELSE <<>>

\* C11: with no token_budget the result of build_commit_context has one block
\* per input commit, in input order; each block is the commit's header plus
\* every file of its map entry in the stored order with its whole patch; the
\* blocks are joined by the separator, and no commits give the empty string.
C11_NoBudgetRendersAll ==
    (pc = "built" /\ token_budget = None) =>
        /\ Len(built) = Len(commits)
        /\ \A i \in 1..Len(commits) :
               /\ built[i].id = commits[i].id
               /\ Len(built[i].files) = Len(FilesOf(commits[i]))
               /\ \A k \in 1..Len(built[i].files) :
                      /\ built[i].files[k].filename = FilesOf(commits[i])[k].filename
                      /\ built[i].files[k].shown # "notice"
               /\ built[i].chars = HeaderLen(commits[i]) + FullFilesLen(FilesOf(commits[i]))
        /\ ContextLen(built) =
               IF commits = <<>> THEN 0
               ELSE SumChars(built) + SeparatorLen * (Len(commits) - 1)
        /\ commits = <<>> => built = <<>>

C11_Witness ==
    /\ pc = "built" /\ token_budget = None /\ Len(commits) = 2
    /\ Len(FilesOf(commits[1])) = 3
    /\ sorted_files(FilesOf(commits[1])) # FilesOf(commits[1])
    /\ Len(built) = 2 /\ Len(built[1].files) = 3

Occurrences(grouping, c) ==
    Cardinality({<<d, k>> \in (DOMAIN grouping) \X (1..Len(commits)) :
                    k <= Len(grouping[d]) /\ grouping[d][k] = c})

\* C13: the buckets group_commits_by_day returns partition the input: every
\* input commit is in exactly one bucket exactly once, the buckets hold
\* nothing else, within a bucket the commits keep their input order, and the
\* empty list gives the empty mapping.
C13_BucketsPartitionInput ==
    pc = "grouped" =>
        /\ \A i \in 1..Len(commits) : Occurrences(by_day, commits[i]) = 1
        /\ \A d \in DOMAIN by_day :
               /\ \A k \in 1..Len(by_day[d]) :
                      \E i \in 1..Len(commits) : by_day[d][k] = commits[i]
               /\ \A k, l \in 1..Len(by_day[d]) :
                      k < l => by_day[d][k].id < by_day[d][l].id
        /\ commits = <<>> => DOMAIN by_day = {}

C13_Witness ==
    /\ pc = "grouped" /\ Len(commits) = 3
    /\ Cardinality(DOMAIN by_day) = 2
    /\ \E d \in DOMAIN by_day : Ids(by_day[d]) = <<1, 3>>

\* the date portion of the timestamps that are ISO-8601, "unknown" for the rest
DatePortion(commit) ==
    IF "timestamp" \notin DOMAIN commit THEN "unknown"
    ELSE CASE commit.timestamp = "2024-01-01T10:00:00Z" -> "2024-01-01"
           [] commit.timestamp = "2024-01-01T23:30:00-05:00" -> "2024-01-01"
           [] commit.timestamp = "2024-01-02T08:30:00+00:00" -> "2024-01-02"
           [] commit.timestamp = "2024-01-02T21:15:00Z" -> "2024-01-02"
           [] commit.timestamp = "" -> "unknown"
           [] commit.timestamp = "yesterday" -> "unknown"

RawList == responses[Shas[1]].files

\* the name ends, whatever the case of its letters, with one of the non-code
\* extensions
EndsWithNonCodeExtension(filename) ==
    \E ext \in NON_CODE_EXTENSIONS :
        /\ Len(filename) >= Len(ext)
        /\ \A k \in 1..Len(ext) :
               LowerChar(filename[Len(filename) - Len(ext) + k]) = ext[k]

\* the raw files that are to be retained, in input order
Retained == SelectSeq(RawList, LAMBDA f : ~EndsWithNonCodeExtension(f.filename))

\* C15: the file list fetch_commit_diff returns for a raw file list holds no
\* file whose lower-cased extension is in the non-code set and exactly one
\* entry, in input order, for every other raw file; names without a dot are
\* kept and the case of the extension does not matter.
C15_NonCodeFilesDropped ==
    (pc = "fetched" /\ responses[Shas[1]].status = 200) =>
        /\ Len(fetched) = Len(Retained)
        /\ \A k \in 1..Len(fetched) : fetched[k].filename = Retained[k].filename
        /\ \A k \in 1..Len(fetched) : fetched[k].filename \notin {i_PNG, yarn_lock, x_tar_GZ, p_Pdf}
        /\ \A k \in 1..Len(RawList) :
               ~HasDot(RawList[k].filename) =>
                   \E j \in 1..Len(fetched) : fetched[j].filename = RawList[k].filename

C15_Witness ==
    /\ pc = "fetched" /\ responses[Shas[1]].status = 200
    /\ Len(RawList) = 2
    /\ RawList[1].filename = x_tar_GZ /\ RawList[2].filename = README
    /\ Len(fetched) = 1 /\ fetched[1].filename = README

\* C16: of every retained file a patch longer than 90,000 characters comes
\* back as its first 90,000 characters followed by the truncation marker, and
\* a patch of at most 90,000 characters comes back as it is, without marker.
C16_PatchTruncation ==
    (pc = "fetched" /\ responses[Shas[1]].status = 200) =>
        /\ Len(fetched) = Len(Retained)
        /\ \A k \in 1..Len(fetched) :
               IF Retained[k].patch > 90000
               THEN fetched[k].patch = 90000 + SizeMarkerLen /\ fetched[k].marker
               ELSE fetched[k].patch = Retained[k].patch /\ ~fetched[k].marker

C16_Witness ==
    /\ pc = "fetched" /\ Len(fetched) = 2
    /\ Retained[1].patch = 90000 /\ fetched[1].patch = 90000 /\ ~fetched[1].marker
    /\ Retained[2].patch = 90001 /\ fetched[2].patch = 90146 /\ fetched[2].marker

\* the change records of the calls that returned a result, in call order
RECURSIVE ReturnedChanges(_)
ReturnedChanges(entries) ==
    IF entries = <<>> THEN <<>>
    ELSE (IF Head(entries).result.raised THEN <<>> ELSE Head(entries).result.changes)
             \o ReturnedChanges(Tail(entries))

\* a Summarizer call that came back with no records: None, or an analysis
\* without changes
ReturnedNothing(e) == ~e.result.raised /\ e.result.changes = <<>>

\* C17: at every point of a run the accumulated changes are the records the
\* Summarizer calls returned, concatenated in call order (a call that
\* returned None adds nothing and removes nothing), and a run in which a call
\* returned nothing still submits every batch: at its end every input commit
\* has been handed to a Summarizer call.
C17_ChangesConcatenateResults ==
    /\ all_changes = ReturnedChanges(Calls)
    /\ (Finished /\ \E k \in 1..Len(Calls) : ReturnedNothing(Calls[k])) =>
           \A i \in 1..Len(commits) : Count(ConcatIds(Calls), commits[i].id) = 1

C17_Witness ==
    /\ Finished /\ Len(Calls) = 3
    /\ Calls[1].result.changes # <<>>
    /\ ReturnedNothing(Calls[2])
    /\ Calls[3].result.changes # <<>>
    /\ all_changes = Calls[1].result.changes \o Calls[3].result.changes
    /\ Len(all_changes) = 2

\* C18: when a Summarizer call raises, the remaining batches of the
\* repository are still submitted (every input commit is handed to a call)
\* and the records of the calls that returned before stay in the
\* repository's result.
C18_RaiseContained ==
    (pc = "end" /\ \E k \in 1..Len(Calls) : Calls[k].result.raised) =>
        /\ \A i \in 1..Len(commits) : Count(ConcatIds(Calls), commits[i].id) = 1
        /\ repository_analyses[repo_i].changes = ReturnedChanges(Calls)

\* C19: repository_analyses holds one entry per repository the loop has
\* passed, in iteration order, and one per input repository when the loop is
\* over; a repository whose processing raised gets the entry with no
\* changes, a repository whose processing returned gets its changes, the
\* entries of the others are left alone, and the loop goes on to the next
\* repository either way.
C19_OneEntryPerRepository ==
    /\ [](/\ Len(repository_analyses) <= Len(github_activity_data)
          /\ \A i \in 1..Len(repository_analyses) :
                 /\ repository_analyses[i].repository = github_activity_data[i].repository
                 /\ (\E k \in 1..Len(errors) : errors[k] = github_activity_data[i].repository)
                        => repository_analyses[i].changes = <<>>
          /\ pc = "end" => Len(repository_analyses) = Len(github_activity_data)
          /\ pc # "end" => Len(repository_analyses) = repo_i - 1)
    /\ [][ /\ pc = "raised" =>
                  repository_analyses' =
                      Append(repository_analyses,
                             [repository |-> github_activity_data[repo_i].repository,
                              changes |-> <<>>])
           /\ pc = "done" =>
                  repository_analyses' =
                      Append(repository_analyses,
                             [repository |-> github_activity_data[repo_i].repository,
                              changes |-> all_changes])
           /\ (pc \in {"raised", "done"} /\ repo_i < Len(github_activity_data)) =>
                  /\ pc' = "start" /\ repo_i' = repo_i + 1
                  /\ commits' = github_activity_data[repo_i + 1].commits ]_vars

C19_Witness ==
    /\ pc = "end" /\ Len(github_activity_data) = 2
    /\ errors = <<"owner/tier2">>
    /\ repository_analyses[1] = [repository |-> "owner/tier2", changes |-> <<>>]
    /\ repository_analyses[2].repository = "owner/tier3"
    /\ Len(repository_analyses[2].changes) = 2

\* the diff-fetch calls of the run
FetchCalls == SelectSeq(log, LAMBDA e : e.op = "fetch")

\* the commit has no entry in the map
NoDiffs(commit) == commit.sha \notin DOMAIN commit_diffs

\* the input commit with identity id
CommitOf(id) == commits[CHOOSE i \in 1..Len(commits) : commits[i].id = id]

RECURSIVE BlockTokens(_)
BlockTokens(parts) ==
    IF parts = <<>> THEN 0
    ELSE estimate_tokens(Head(parts).chars) + BlockTokens(Tail(parts))

\* C21: with a positive token_budget B the estimated size of the blob
\* build_commit_context returns, separators between the blocks included, is
\* at most B.
C21_BlobWithinBudget ==
    (pc = "built" /\ Truthy(token_budget)) =>
        estimate_tokens(ContextLen(built)) <= token_budget[1]

\* C22: with a positive token_budget the rendered commits are a prefix of the
\* input list: the first commit whose block would push the running total
\* over the budget is left out and so is every commit after it, one that
\* would fit included.
C22_RenderedPrefix ==
    (pc = "built" /\ Truthy(token_budget)) =>
        /\ Len(built) <= Len(commits)
        /\ BlockIds(built) = SubSeq(Ids(commits), 1, Len(built))
        /\ BlockTokens(built) <= token_budget[1]
        /\ Len(built) < Len(commits) =>
               BlockTokens(built)
                   + estimate_tokens(CommitBlock(commits[Len(built) + 1], commit_diffs,
                                                 BlockTokens(built), token_budget).chars)
                   > token_budget[1]

C22_Witness ==
    /\ pc = "built" /\ token_budget = Some(48) /\ Len(commits) = 2
    /\ built = <<>>
    /\ estimate_tokens(HeaderLen(commits[2])) <= 48
    /\ NoDiffs(commits[2])

\* the stored file of a commit that a rendered file line names
StoredFile(commit, filename) ==
    FilesOf(commit)[CHOOSE i \in 1..Len(FilesOf(commit)) :
                        FilesOf(commit)[i].filename = filename]

\* the characters of the file lines of a block, a notice for the files shown
\* as one and the whole text for the others
RECURSIVE ShownFilesLen(_, _)
ShownFilesLen(commit, lines) ==
    IF lines = <<>> THEN 0
    ELSE (IF Head(lines).shown = "notice"
          THEN NoticeTextLen(StoredFile(commit, Head(lines).filename))
          ELSE FileTextLen(StoredFile(commit, Head(lines).filename)))
             + ShownFilesLen(commit, Tail(lines))

\* C23: in the blob built with a positive token_budget, once a file of a
\* commit is shown as the budget truncation notice every later file of that
\* commit is shown as a notice too, and a notice stands in place of the file's
\* patch.
C23_NoticeIsTerminal ==
    (pc = "built" /\ Truthy(token_budget)) =>
        \A j \in 1..Len(built) :
            /\ \A k, l \in 1..Len(built[j].files) :
                   (k < l /\ built[j].files[k].shown = "notice") =>
                       built[j].files[l].shown = "notice"
            /\ built[j].chars =
                   HeaderLen(CommitOf(built[j].id))
                       + ShownFilesLen(CommitOf(built[j].id), built[j].files)

C23_Witness ==
    /\ pc = "built" /\ Truthy(token_budget)
    /\ \E j \in 1..Len(built) :
           /\ Len(built[j].files) = 2
           /\ built[j].files[1].shown = "notice"
           /\ built[j].files[2].shown = "notice"
           /\ built[j].files[1].filename = b_py

\* position of a file name in the stored list of a commit
StoredIndex(commit, filename) ==
    CHOOSE i \in 1..Len(FilesOf(commit)) : FilesOf(commit)[i].filename = filename

\* C24: with a positive token_budget the files of each rendered commit come
\* in non-decreasing order of patch length, files of equal patch length in
\* their stored order (no patch counts as length 0); without a budget they
\* come in the stored order.
C24_FilesSmallestFirst ==
    pc = "built" =>
        \A j \in 1..Len(built) :
            LET commit == CommitOf(built[j].id)
                lines  == built[j].files
            IN  /\ Len(lines) = Len(FilesOf(commit))
                /\ {lines[k].filename : k \in 1..Len(lines)}
                       = {FilesOf(commit)[k].filename : k \in 1..Len(lines)}
                /\ IF Truthy(token_budget)
                   THEN \A k, l \in 1..Len(lines) :
                            k < l =>
                                LET fk == StoredFile(commit, lines[k].filename)
                                    fl == StoredFile(commit, lines[l].filename)
                                IN  \/ fk.patch < fl.patch
                                    \/ /\ fk.patch = fl.patch
                                       /\ StoredIndex(commit, lines[k].filename)
                                              < StoredIndex(commit, lines[l].filename)
                   ELSE \A k \in 1..Len(lines) :
                            lines[k].filename = FilesOf(commit)[k].filename

C24_Witness ==
    /\ pc = "built" /\ Truthy(token_budget)
    /\ \E j \in 1..Len(built) :
           /\ Len(built[j].files) = 3
           /\ built[j].files[1].filename = README
           /\ built[j].files[2].filename = dot_gitignore
           /\ built[j].files[3].filename = b_py
           /\ FilesOf(CommitOf(built[j].id))[1].filename = dot_gitignore

\* the days of the run, each with its own unbudgeted estimated size
OwnDays == DayData(group_commits_by_day(commits))

\* the Tier-3 classification has been made
Classified == tier = 3 /\ pc \in {"large", "pack", "done", "raised"}

\* C25: in Tier 3 a day is large iff its own unbudgeted estimated size is
\* > 100,000 and small iff it is <= 100,000; the small days are packed by
\* the greedy packer with the threshold 90,000 of Tier 2, so a finished
\* Tier-3 run without a large day makes exactly the unbudgeted calls the
\* packer gives for all its days.
C25_SmallDaysAsTier2 ==
    /\ Classified =>
           /\ Len(large_days) + Len(small_days) = Len(OwnDays)
           /\ \A i \in 1..Len(OwnDays) :
                  /\ (\E j \in 1..Len(large_days) : large_days[j] = OwnDays[i])
                         <=> OwnDays[i].day_tokens > 100000
                  /\ (\E j \in 1..Len(small_days) : small_days[j] = OwnDays[i])
                         <=> OwnDays[i].day_tokens <= 100000
    /\ (Finished /\ tier = 3) =>
           PackerBatches = GreedyBatches(small_days, <<>>, 0, <<>>)
    /\ (Finished /\ tier = 3 /\ large_days = <<>>) =>
           /\ \A k \in 1..Len(Calls) : Calls[k].token_budget = None
           /\ [k \in 1..Len(Calls) |-> Calls[k].ids]
                  = GreedyBatches(OwnDays, <<>>, 0, <<>>)

C25_Witness ==
    /\ Finished /\ tier = 3 /\ large_days = <<>>
    /\ Len(small_days) = WideDays
    /\ small_days[1].day_tokens = 100000
    /\ Len(Calls) = WideDays

\* the branches a page's nodes give: those with a name and a date
ValidBranches(nodes) ==
    LET valid == SelectSeq(nodes, LAMBDA b : b.name # <<>> /\ b.target.committedDate # "")
    IN  [k \in 1..Len(valid) |->
            [name |-> valid[k].name, committedDate |-> valid[k].target.committedDate]]

\* the branches of the server's pages 1..n
RECURSIVE Collected(_)
Collected(n) == IF n = 0 THEN <<>> ELSE Collected(n - 1) \o ValidBranches(PageNodes(n))

IsPrefix(a, b) == Len(a) <= Len(b) /\ SubSeq(b, 1, Len(a)) = a

\* the last request got no page: it raised, or gave a status other than 200,
\* GraphQL errors, or a body that is no JSON
NoPage == requests > 0 /\ last_response.kind # "page"

\* C26: fetch_branches_with_dates terminates; it makes at most 50 requests
\* (exactly 50 when every page reports hasNextPage), makes none after a
\* request that raised or gave a non-200 status or GraphQL errors, and
\* returns all_branches: the branches of every page processed before, and
\* of the last page as far as it was processed.
C26_BranchesTerminate ==
    /\ [](requests <= 50)
    /\ [](pc = "branches" =>
             /\ page = requests + 1
             /\ all_branches = Collected(requests)
             /\ requests > 0 => last_response.kind = "page" /\ last_response.hasNextPage)
    /\ [](NoPage => pc = "returned" /\ returned = Some(Collected(requests - 1)))
    /\ [](pc = "returned" =>
             /\ returned = Some(all_branches)
             /\ IsPrefix(Collected(requests - 1), all_branches)
             /\ (last_response.kind = "page" /\ last_response.nodes = PageNodes(requests))
                    => all_branches = Collected(requests)
             /\ (last_response.kind = "page" /\ last_response.nodes = BrokenNodes(requests))
                    => all_branches = Append(Collected(requests - 1),
                                             [name |-> <<requests, 1>>,
                                              committedDate |-> CommittedDate])
             /\ (last_response.kind = "page" /\ last_response.hasNextPage
                    /\ last_response.nodes = PageNodes(requests)) => requests = 50)
    /\ <>(pc = "returned")

C26_Witness ==
    /\ pc = "returned" /\ requests = 50
    /\ last_response.kind = "page" /\ last_response.hasNextPage
    /\ last_response.nodes = PageNodes(50)
    /\ returned = Some(Collected(50))
    /\ Len(Collected(50)) = 51

\* the step is a run of the script after which the stored report is one the
\* LLM returned in that run
GeneratedRun ==
    /\ runs' = runs + 1
    /\ business_report' = [source |-> "llm", run |-> runs']

\* C27: the stored business_report_history never holds more than 2 entries;
\* a step changes it only in a run where the LLM returned a report, and
\* then to the last entry it held followed by the entry of the current
\* week; a run without activity, with a failed LLM call or with a raise
\* leaves it as it was.
C27_HistoryAtMostTwo ==
    /\ [](Len(business_report_history) <= 2)
    /\ [][GeneratedRun =>
             /\ Len(business_report_history') = Min(Len(business_report_history), 1) + 1
             /\ business_report_history'[Len(business_report_history')]
                    = [week |-> week', report |-> business_report']
             /\ business_report_history # <<>> =>
                    business_report_history'[1]
                        = business_report_history[Len(business_report_history)]]_vars
    /\ [][~GeneratedRun => business_report_history' = business_report_history]_vars

C27_Witness ==
    /\ runs = 4
    /\ business_report = [source |-> "fallback", run |-> 4]
    /\ Len(business_report_history) = 2
    /\ business_report_history[1].report.run = 2
    /\ business_report_history[2].report.run = 3

\* the days (indices of small_days) whose commits are in a list of commit ids
DaysIn(ids) ==
    {i \in 1..Len(small_days) :
        \A k \in 1..Len(small_days[i].day_commits) :
            \E j \in 1..Len(ids) : ids[j] = small_days[i].day_commits[k].id}

RECURSIVE SumDayTokens(_)
SumDayTokens(days) ==
    IF days = {} THEN 0
    ELSE LET i == CHOOSE i \in days : TRUE
         IN  small_days[i].day_tokens + SumDayTokens(days \ {i})

\* the batches process_small_days_batch has submitted
SubmittedBatches ==
    IF tier \in {2, 3} THEN SelectSeq(Calls, LAMBDA e : e.token_budget = None) ELSE <<>>

\* C28: a batch submitted by process_small_days_batch that holds two or
\* more days has days' sizes summing to at most 90,000; a batch whose days'
\* sizes sum to more than 90,000 is a single day larger than 90,000.  The
\* running batch obeys the same, and its accumulated size is the sum of
\* its days' sizes.
C28_OversizedDayAlone ==
    /\ \A k \in 1..Len(SubmittedBatches) :
           LET days == DaysIn(SubmittedBatches[k].ids)
           IN  /\ days # {}
               /\ Cardinality(days) >= 2 => SumDayTokens(days) <= 90000
               /\ SumDayTokens(days) > 90000 =>
                      \E i \in days : days = {i} /\ small_days[i].day_tokens > 90000
    /\ (pc = "pack" /\ current_batch # <<>>) =>
           LET days == DaysIn(Ids(current_batch))
           IN  /\ current_tokens = SumDayTokens(days)
               /\ Cardinality(days) >= 2 => current_tokens <= 90000
               /\ current_tokens > 90000 =>
                      \E i \in days : days = {i} /\ small_days[i].day_tokens > 90000

C28_Witness ==
    /\ Finished /\ tier = 2
    /\ DaySizes = <<30000, 60000, 95000, 30000>>
    /\ Len(SubmittedBatches) = 3
    /\ SubmittedBatches[1].ids = Ids(small_days[1].day_commits \o small_days[2].day_commits)
    /\ SubmittedBatches[2].ids = Ids(small_days[3].day_commits)
    /\ SubmittedBatches[3].ids = Ids(small_days[4].day_commits)

\* the positions in the sorted day keys of the days of a call's commits
CallKeys(e) == {KeyIndex(DayKey(CommitOf(e.ids[k]))) : k \in 1..Len(e.ids)}

\* C29: in Tier 3 no small-day batch call comes before a large-day call;
\* each large-day call is one day, and later calls of the same kind are
\* about later day keys ("unknown" being the last key); the change records
\* in all_changes come in the order of the calls that returned them.
C29_LargeDaysFirst ==
    tier = 3 =>
        /\ \A j, k \in 1..Len(Calls) :
               j < k =>
                   /\ ~(Calls[j].token_budget = None /\ Calls[k].token_budget # None)
                   /\ (Calls[j].token_budget = None <=> Calls[k].token_budget = None) =>
                          \A a \in CallKeys(Calls[j]) : \A b \in CallKeys(Calls[k]) : a < b
        /\ \A k \in 1..Len(Calls) :
               /\ Calls[k].token_budget # None => Cardinality(CallKeys(Calls[k])) = 1
               /\ \A a, b \in 1..Len(Calls[k].ids) :
                      a < b => KeyIndex(DayKey(CommitOf(Calls[k].ids[a])))
                                   <= KeyIndex(DayKey(CommitOf(Calls[k].ids[b])))
        /\ \A i, j \in 1..Len(all_changes) :
               i < j => all_changes[i].call < all_changes[j].call
        /\ \A i \in 1..Len(all_changes) :
               /\ all_changes[i].call \in 1..Len(Calls)
               /\ Calls[all_changes[i].call].result.changes = <<all_changes[i]>>

C29_Witness ==
    /\ Finished /\ tier = 3 /\ Len(commits) = 5
    /\ Len(Calls) = 5 /\ Len(all_changes) = 5
    /\ Calls[1].token_budget # None /\ Calls[1].ids = <<3>>
    /\ Calls[2].token_budget # None /\ Calls[2].ids = <<1>>
    /\ Calls[3].token_budget = None /\ Calls[3].ids = <<5>>
    /\ Calls[4].token_budget = None /\ Calls[4].ids = <<2>>
    /\ Calls[5].token_budget = None /\ Calls[5].ids = <<4>>

\* the run of the current repository has made no call at all
NoCalls == log = <<>>

\* C30: every bucket of group_commits_by_day holds a commit, so every day
\* of the Tier-2 and Tier-3 day lists does, and a large-day call has the
\* budget 100,000 // len(day_commits) with len(day_commits) >= 1;
\* process_repository on an empty commit list ends with empty changes and
\* without a diff-fetch, build or Summarizer call, and its entry in
\* repository_analyses has no changes.
C30_NoEmptyBucket ==
    /\ \A d \in DOMAIN by_day : by_day[d] # <<>>
    /\ \A d \in DOMAIN group_commits_by_day(commits) :
           group_commits_by_day(commits)[d] # <<>>
    /\ \A i \in 1..Len(large_days) : Len(large_days[i].day_commits) >= 1
    /\ \A i \in 1..Len(small_days) : Len(small_days[i].day_commits) >= 1
    /\ \A k \in 1..Len(Calls) :
           Calls[k].token_budget # None =>
               /\ Len(Calls[k].ids) >= 1
               /\ Calls[k].token_budget = Some(100000 \div Len(Calls[k].ids))
    /\ (commits = <<>> /\ pc \in {"start", "done"}) =>
           NoCalls /\ all_changes = <<>> /\ tier = 0
    /\ \A i \in 1..Len(repository_analyses) :
           github_activity_data[i].commits = <<>> =>
               repository_analyses[i] =
                   [repository |-> github_activity_data[i].repository, changes |-> <<>>]
    /\ commits = <<>> => pc \notin {"fetch", "size", "tier", "large", "pack", "raised"}

C30_Witness ==
    /\ Len(github_activity_data) = 2
    /\ github_activity_data[1].commits = <<>>
    /\ repository_analyses = <<[repository |-> "owner/empty", changes |-> <<>>]>>
    /\ errors = <<>>
    /\ tier = 3 /\ pc = "done"
    /\ Len(Calls) = 2
    /\ Calls[1].ids = <<1, 2>> /\ Calls[1].token_budget = Some(50000)

====
